---- MODULE Spec2Model ----
(***************************************************************************)
(* Model of updateTypes (src/main.ts): the generator that reads the        *)
(* PostgreSQL catalog through knex and writes TypeScript declarations to   *)
(* an output stream.                                                       *)
(*                                                                         *)
(* Strings that the program inspects or transforms (schema, table, column, *)
(* enum and udt names, schema specifiers) are sequences of one-character   *)
(* strings, so that startsWith, endsWith, split, trim and lodash's         *)
(* camelCase / upperFirst are computed character by character.  Strings    *)
(* the program only compares for equality (constraint names, constraint    *)
(* types, the literal TypeScript type names) are plain TLA+ strings.       *)
(***************************************************************************)
EXTENDS Integers, Sequences, FiniteSets, TLC

(***************************************************************************)
(* Bounds                                                                  *)
(***************************************************************************)
\* longest schema list given as options.schema
MaxSchemaEntries == 3

(***************************************************************************)
(* Characters and string helpers (String.prototype / lodash)               *)
(***************************************************************************)
LowerChars ==
  << "a","b","c","d","e","f","g","h","i","j","k","l","m",
     "n","o","p","q","r","s","t","u","v","w","x","y","z" >>

UpperChars ==
  << "A","B","C","D","E","F","G","H","I","J","K","L","M",
     "N","O","P","Q","R","S","T","U","V","W","X","Y","Z" >>

DigitChars == { "0","1","2","3","4","5","6","7","8","9" }

Range(f) == { f[i] : i \in DOMAIN f }

IsLower(c) == c \in Range(LowerChars)

IsUpper(c) == c \in Range(UpperChars)

\* toUpperCase of one character
Upper(c) ==
  IF IsLower(c)
    THEN UpperChars[CHOOSE i \in DOMAIN LowerChars : LowerChars[i] = c]
    ELSE c

\* toLowerCase of one character
Lower(c) ==
  IF IsUpper(c)
    THEN LowerChars[CHOOSE i \in DOMAIN UpperChars : UpperChars[i] = c]
    ELSE c

toLowerCase(s) == [ i \in DOMAIN s |-> Lower(s[i]) ]

\* lodash upperFirst: the first character upper-cased, the rest untouched;
\* upperFirst("") = ""
upperFirst(s) == IF s = << >> THEN s ELSE << Upper(s[1]) >> \o Tail(s)

\* a character that belongs to a word for lodash's words(); the alphabet of
\* the modelled identifiers is letters and the separators "_", ".", "!", " "
IsWordChar(c) == IsLower(c) \/ IsUpper(c)

\* length of the longest prefix of s made of word characters
RECURSIVE WordRun(_)
WordRun(s) ==
  IF s = << >> \/ ~IsWordChar(s[1]) THEN 0 ELSE 1 + WordRun(Tail(s))

\* lodash words(): the maximal runs of word characters, in order
RECURSIVE words(_)
words(s) ==
  IF s = << >> THEN << >>
  ELSE IF ~IsWordChar(s[1]) THEN words(Tail(s))
  ELSE LET n == WordRun(s)
       IN  << SubSeq(s, 1, n) >> \o words(SubSeq(s, n + 1, Len(s)))

RECURSIVE CamelJoin(_, _)
CamelJoin(ws, i) ==
  IF i > Len(ws) THEN << >>
  ELSE (IF i = 1 THEN toLowerCase(ws[i])
                 ELSE upperFirst(toLowerCase(ws[i]))) \o CamelJoin(ws, i + 1)

\* lodash camelCase: words lower-cased, all but the first capitalised, joined;
\* camelCase(undefined) = "" (undefined is modelled as the empty string)
camelCase(s) == CamelJoin(words(s), 1)

startsWith(s, p) == Len(s) >= Len(p) /\ SubSeq(s, 1, Len(p)) = p

endsWith(s, p) ==
  Len(s) >= Len(p) /\ SubSeq(s, Len(s) - Len(p) + 1, Len(s)) = p

\* String.prototype.trim for the space character
RECURSIVE trim(_)
trim(s) ==
  IF s = << >> THEN s
  ELSE IF s[1] = " " THEN trim(Tail(s))
  ELSE IF s[Len(s)] = " " THEN trim(SubSeq(s, 1, Len(s) - 1))
  ELSE s

\* index of the first occurrence of character c in s, 0 when absent
IndexOf(s, c) ==
  IF \E i \in DOMAIN s : s[i] = c
    THEN CHOOSE i \in DOMAIN s : s[i] = c /\ \A j \in 1..(i - 1) : s[j] # c
    ELSE 0

\* String.prototype.split on one separator character
RECURSIVE split(_, _)
split(s, c) ==
  LET i == IndexOf(s, c)
  IN  IF i = 0 THEN << s >>
      ELSE << SubSeq(s, 1, i - 1) >> \o split(SubSeq(s, i + 1, Len(s)), c)

\* Array.prototype.map
Map(f(_), s) == [ i \in DOMAIN s |-> f(s[i]) ]

\* sanitize(): the identifier test /^[a-zA-Z$_][a-zA-Z$_0-9]*$/
IsIdentStart(c) == IsLower(c) \/ IsUpper(c) \/ c \in { "$", "_" }

IsIdentifier(name) ==
  /\ name # << >>
  /\ IsIdentStart(name[1])
  /\ \A i \in DOMAIN name : IsIdentStart(name[i]) \/ name[i] \in DigitChars

(***************************************************************************)
(* Identifiers of the modelled catalog                                     *)
(***************************************************************************)
s_public == << "p","u","b","l","i","c" >>
s_log    == << "l","o","g" >>
s_auth   == << "a","u","t","h" >>
s_notauth == << "!" >> \o s_auth
t_user   == << "u","s","e","r" >>
t_visit  == << "v","i","s","i","t" >>
c_id     == << "i","d" >>
c_user_id == << "u","s","e","r","_","i","d" >>
c_log_user_id == << "l","o","g","_","u","s","e","r","_","i","d" >>
c_mood   == << "m","o","o","d" >>
u_int4   == << "i","n","t","4" >>
u_text   == << "t","e","x","t" >>
u_mood   == << "m","o","o","d" >>
lbl_happy == << "h","a","p","p","y" >>
lbl_sad  == << "s","a","d" >>
n_Account == << "A","c","c","o","u","n","t" >>
n_LogAccount == << "L","o","g" >> \o n_Account
k_log_user == s_log \o << "." >> \o t_user

u_arr_text == << "_" >> \o u_text
u_bool   == << "b","o","o","l" >>
u_json   == << "j","s","o","n" >>
c_tags   == << "t","a","g","s" >>

\* undefined / null for a string-valued property
Undefined == << >>

(***************************************************************************)
(* The catalog snapshot read through knex (pg_type/pg_enum and             *)
(* information_schema).  Sequences that the program queries with ORDER BY  *)
(* are kept in that order here, so that a filtered subsequence is the      *)
(* ordered query result.                                                   *)
(***************************************************************************)
EnumRow(k, v) == [ key |-> k, value |-> v ]

\* pg_type join pg_enum, ordered by typname, enumsortorder
PgEnums == << EnumRow(u_mood, lbl_happy), EnumRow(u_mood, lbl_sad) >>

ColumnRow(s, t, c, n, ty, u) ==
  [ schema |-> s, table |-> t, column |-> c, nullable |-> n,
    default |-> Undefined, type |-> ty, udt |-> u ]

\* information_schema.columns ordered by table_schema, table_name,
\* ordinal_position ("auth" < "log" < "public", "user" < "visit")
InformationSchemaColumns ==
  << ColumnRow(s_auth,   t_user,  c_id,          FALSE, "integer", u_int4),
     ColumnRow(s_auth,   t_visit, c_id,          FALSE, "integer", u_int4),
     ColumnRow(s_auth,   t_visit, c_user_id,     FALSE, "integer", u_int4),
     ColumnRow(s_log,    t_user,  c_id,          FALSE, "integer", u_int4),
     ColumnRow(s_public, t_user,  c_id,          FALSE, "integer", u_int4),
     ColumnRow(s_public, t_user,  c_mood,        TRUE,  "USER-DEFINED", u_mood),
     ColumnRow(s_public, t_user,  c_tags,        TRUE,  "ARRAY",   u_arr_text),
     ColumnRow(s_public, t_visit, c_id,          FALSE, "integer", u_int4),
     ColumnRow(s_public, t_visit, c_user_id,     FALSE, "integer", u_int4),
     ColumnRow(s_public, t_visit, c_log_user_id, TRUE,  "integer", u_int4) >>

ConstraintRow(s, n, ty) ==
  [ table_schema |-> s, constraint_name |-> n, constraint_type |-> ty ]

\* information_schema.table_constraints.  PostgreSQL names a constraint
\* <table>_<column>_fkey by default, so auth.visit and public.visit carry a
\* foreign key of the same name, each in its own schema.
TableConstraints ==
  << ConstraintRow(s_auth,   "visit_user_id_fkey",     "FOREIGN KEY"),
     ConstraintRow(s_log,    "user_id_key",            "UNIQUE"),
     ConstraintRow(s_log,    "user_id_fkey",           "FOREIGN KEY"),
     ConstraintRow(s_log,    "user_id_check",          "CHECK"),
     ConstraintRow(s_public, "user_pkey",              "PRIMARY KEY"),
     ConstraintRow(s_public, "visit_pkey",             "PRIMARY KEY"),
     ConstraintRow(s_public, "visit_user_id_fkey",     "FOREIGN KEY"),
     ConstraintRow(s_public, "visit_log_user_id_fkey", "FOREIGN KEY") >>

KeyUsageRow(s, t, c, n) ==
  [ schema |-> s, table |-> t, column |-> c, constraint_name |-> n ]

\* information_schema.key_column_usage
KeyColumnUsage ==
  << KeyUsageRow(s_auth,   t_visit, c_user_id,     "visit_user_id_fkey"),
     KeyUsageRow(s_log,    t_user,  c_id,          "user_id_key"),
     KeyUsageRow(s_log,    t_user,  c_id,          "user_id_fkey"),
     KeyUsageRow(s_public, t_user,  c_id,          "user_pkey"),
     KeyUsageRow(s_public, t_visit, c_id,          "visit_pkey"),
     KeyUsageRow(s_public, t_visit, c_user_id,     "visit_user_id_fkey"),
     KeyUsageRow(s_public, t_visit, c_log_user_id, "visit_log_user_id_fkey") >>

ColumnUsageRow(cs, n, s, t, c) ==
  [ constraint_schema |-> cs, constraint_name |-> n,
    schema |-> s, table |-> t, column |-> c ]

\* information_schema.constraint_column_usage: for a foreign key the
\* referenced column, for a primary key or unique constraint its own column.
\* The view shows only columns of tables owned by an enabled role.
ConstraintColumnUsage ==
  { ColumnUsageRow(s_auth,   "visit_user_id_fkey",     s_auth,   t_user,  c_id),
    ColumnUsageRow(s_log,    "user_id_key",            s_log,    t_user,  c_id),
    ColumnUsageRow(s_log,    "user_id_fkey",           s_public, t_user,  c_id),
    ColumnUsageRow(s_public, "user_pkey",              s_public, t_user,  c_id),
    ColumnUsageRow(s_public, "visit_pkey",             s_public, t_visit, c_id),
    ColumnUsageRow(s_public, "visit_user_id_fkey",     s_public, t_user,  c_id),
    ColumnUsageRow(s_public, "visit_log_user_id_fkey", s_log,    t_user,  c_id) }

\* the connecting role owns every table, or every table but those of "log"
OwnedSchemaSets == { { s_auth, s_log, s_public }, { s_auth, s_public } }

(***************************************************************************)
(* Options                                                                 *)
(***************************************************************************)
SchemaEntries == { s_public, s_log, s_auth, s_notauth }

\* sequences of distinct entries of length 1..n
DistinctSeqs(S, n) ==
  UNION { { q \in [ 1..k -> S ] : \A i, j \in 1..k : q[i] = q[j] => i = j }
          : k \in 1..n }

RECURSIVE Join(_, _)
Join(q, sep) ==
  IF q = << >> THEN << >>
  ELSE IF Len(q) = 1 THEN q[1]
  ELSE q[1] \o sep \o Join(Tail(q), sep)

\* options.schema: undefined, a list, or a comma separated string
SchemaOption(f, l, s) == [ form |-> f, list |-> l, str |-> s ]

SchemaOptions ==
  { SchemaOption("undefined", << >>, << >>) }
  \cup { SchemaOption("list", q, << >>)
           : q \in DistinctSeqs(SchemaEntries, MaxSchemaEntries) }
  \cup { SchemaOption("string", << >>, Join(q, << ",", " " >>))
           : q \in { << s_public, s_log, s_notauth >>, << s_log >> } }

\* options.exclude: undefined, or the string "visit"
ExcludeOptions ==
  { SchemaOption("undefined", << >>, << >>),
    SchemaOption("string", << >>, t_visit) }

Override(k, v) == [ key |-> k, name |-> v ]

\* options.overrides
OverrideOptions ==
  { { }, { Override(t_user, n_Account) }, { Override(k_log_user, n_LogAccount) } }

\* overrides[x] !== undefined
HasOverride(ov, x) == \E o \in ov : o.key = x

\* overrides[x] ?? upperFirst(camelCase(x))
resolveName(ov, x) ==
  IF HasOverride(ov, x)
    THEN (CHOOSE o \in ov : o.key = x).name
    ELSE upperFirst(camelCase(x))

(***************************************************************************)
(* getType                                                                 *)
(***************************************************************************)
BuiltinType(t) == [ builtin |-> t, custom |-> << >> ]

CustomType(n) == [ builtin |-> "", custom |-> n ]

\* customTypes.get(udt) on the Map built from the enum rows
enumsMapGet(ov, enumRows, udt) ==
  IF \E i \in DOMAIN enumRows : enumRows[i].key = udt
    THEN CustomType(resolveName(ov, udt))
    ELSE BuiltinType("unknown")

\* the udt names of the modelled catalog, by the case of the switch they hit
getType(udt, ov, enumRows, defaultValue) ==
  IF udt = u_bool THEN BuiltinType("boolean")
  ELSE IF udt = u_text THEN BuiltinType("string")
  ELSE IF udt = u_int4 THEN BuiltinType("number")
  ELSE IF udt = u_json
    THEN IF startsWith(defaultValue, << "'", "{" >>)
           THEN BuiltinType("Record<string, unknown>")
         ELSE IF startsWith(defaultValue, << "'", "[" >>)
           THEN BuiltinType("unknown[]")
         ELSE BuiltinType("unknown")
  ELSE enumsMapGet(ov, enumRows, udt)

(***************************************************************************)
(* The calls made on the output stream.  Each entry is one output.write    *)
(* (or the final output.end), tagged with the section of updateTypes that  *)
(* makes it; row is the index of the column row a record-type line is      *)
(* written for (0 for every other line).                                   *)
(***************************************************************************)
NoType ==
  [ base |-> BuiltinType(""), array |-> FALSE, brands |-> << >>, null |-> FALSE ]

Line(ph, k, t, v) ==
  [ phase |-> ph, kind |-> k, text |-> t, value |-> v, type |-> NoType, row |-> 0 ]

RowLine(k, t, ty, i) ==
  [ phase |-> "RecordTypes", kind |-> k, text |-> t, value |-> << >>,
    type |-> ty, row |-> i ]

Phases ==
  << "Prefix", "Enums", "TableIndex", "TableMap", "RecordTypes", "Suffix", "Closed" >>

VARIABLES
  options,            \* the Options argument and the catalog visibility
  pc,                 \* position inside updateTypes
  output,             \* calls received by the output stream, in order
  destroyed,          \* number of db.destroy() calls
  failed,             \* section whose statement threw, "none" when none did
  includeSchemas, excludeSchemas, exclude,
  enums, columns, keys, schemaIdx, columnsWithKeyInfo

vars ==
  << options, pc, output, destroyed, failed, includeSchemas, excludeSchemas,
     exclude, enums, columns, keys, schemaIdx, columnsWithKeyInfo >>

data == << includeSchemas, excludeSchemas, exclude, enums, columns, keys,
           schemaIdx, columnsWithKeyInfo >>

Init ==
  /\ options \in [ schema : SchemaOptions, overrides : OverrideOptions,
                   prefix : BOOLEAN, suffix : BOOLEAN,
                   exclude : ExcludeOptions,
                   owned : OwnedSchemaSets ]
  /\ pc = "header"
  /\ output = << >>
  /\ destroyed = 0
  /\ failed = "none"
  /\ includeSchemas = << >>
  /\ excludeSchemas = << >>
  /\ exclude = << >>
  /\ enums = << >>
  /\ columns = << >>
  /\ keys = << >>
  /\ schemaIdx = 1
  /\ columnsWithKeyInfo = << >>

(***************************************************************************)
(* Writes.  output.write may throw (a Writable whose _write throws, an     *)
(* invalid chunk): the lines before the failing one have been written.     *)
(***************************************************************************)
\* a run of writes before the try block: an exception leaves updateTypes
WriteOutsideTry(lines, next) ==
  \E k \in 0..Len(lines) :
    /\ output' = output \o SubSeq(lines, 1, k)
    /\ IF k = Len(lines)
         THEN pc' = next /\ failed' = failed
         ELSE pc' = "thrown" /\ failed' = "Prefix"

\* WriteInsideTry with the exception swallowed: generation goes on
WriteInsideTrySwallowed(lines, ph, next) ==
  \E k \in 0..Len(lines) :
    /\ output' = output \o SubSeq(lines, 1, k)
    /\ pc' = next
    /\ failed' = IF k = Len(lines) THEN failed ELSE ph

\* a run of writes inside the try block: an exception enters the finally
WriteInsideTry(lines, ph, next) ==
  \E k \in 0..Len(lines) :
    /\ output' = output \o SubSeq(lines, 1, k)
    /\ IF k = Len(lines)
         THEN pc' = next /\ failed' = failed
         ELSE pc' = "finally" /\ failed' = ph

\* an awaited query rejects: the exception enters the finally
QueryFails(ph) ==
  /\ pc' = "finally"
  /\ failed' = ph
  /\ UNCHANGED << options, output, destroyed, data >>

(***************************************************************************)
(* updateTypes, before the try block                                       *)
(***************************************************************************)
HeaderLines ==
  << Line("Prefix", "header", << >>, << >>),
     Line("Prefix", "header", << >>, << >>) >>

WriteHeader ==
  /\ pc = "header"
  /\ WriteOutsideTry(HeaderLines, "parse")
  /\ UNCHANGED << options, destroyed, data >>

\* options.schema as the list of entries, ["public"] when undefined
schemaList(opt) ==
  IF opt.schema.form = "string"
    THEN Map(trim, split(opt.schema.str, ","))
  ELSE IF opt.schema.form = "list" THEN opt.schema.list
  ELSE << s_public >>

IsExcludeEntry(s) == startsWith(s, << "!" >>)

IsIncludeEntry(s) == ~IsExcludeEntry(s)

\* acc[+s.startsWith("!")].push(s): the entry is pushed as it is
PartitionSchemas(schema) ==
  << SelectSeq(schema, IsIncludeEntry), SelectSeq(schema, IsExcludeEntry) >>

\* options.exclude as the list of table names, [] when undefined
excludeList(opt) ==
  IF opt.exclude.form = "string"
    THEN Map(trim, split(opt.exclude.str, ","))
  ELSE IF opt.exclude.form = "list" THEN opt.exclude.list
  ELSE << >>

ParseOptions ==
  /\ pc = "parse"
  /\ includeSchemas' = PartitionSchemas(schemaList(options))[1]
  /\ excludeSchemas' = PartitionSchemas(schemaList(options))[2]
  /\ exclude' = excludeList(options)
  /\ pc' = "prefix"
  /\ UNCHANGED << options, output, destroyed, failed, enums, columns, keys,
                  schemaIdx, columnsWithKeyInfo >>

PrefixLines ==
  IF options.prefix
    THEN << Line("Prefix", "prefix", << >>, << >>),
            Line("Prefix", "blank", << >>, << >>) >>
    ELSE << >>

WritePrefix ==
  /\ pc = "prefix"
  /\ WriteOutsideTry(PrefixLines, "fetchEnums")
  /\ UNCHANGED << options, destroyed, data >>

(***************************************************************************)
(* Enums                                                                   *)
(***************************************************************************)
FetchEnums ==
  /\ pc = "fetchEnums"
  /\ \/ /\ enums' = PgEnums
        /\ pc' = "emitEnums"
        /\ UNCHANGED << options, output, destroyed, failed, includeSchemas,
                        excludeSchemas, exclude, columns, keys, schemaIdx,
                        columnsWithKeyInfo >>
     \/ QueryFails("Enums")

\* the writes of one enum row: opening line when the previous row has
\* another key, the member, closing lines when the next row has another key
EnumRowLines(rows, i, ov) ==
  LET x == rows[i]
      enumName == resolveName(ov, x.key)
  IN  (IF ~(i > 1 /\ rows[i - 1].key = x.key)
         THEN << Line("Enums", "enumOpen", enumName, << >>) >> ELSE << >>)
      \o << Line("Enums", "enumValue", x.value, x.value) >>
      \o (IF ~(i < Len(rows) /\ rows[i + 1].key = x.key)
            THEN << Line("Enums", "enumClose", << >>, << >>),
                    Line("Enums", "enumAlias", enumName, enumName) >>
            ELSE << >>)

RECURSIVE EnumLines(_, _, _)
EnumLines(rows, i, ov) ==
  IF i > Len(rows) THEN << >>
  ELSE EnumRowLines(rows, i, ov) \o EnumLines(rows, i + 1, ov)

EmitEnums ==
  /\ pc = "emitEnums"
  /\ WriteInsideTry(EnumLines(enums, 1, options.overrides), "Enums", "fetchColumns")
  /\ UNCHANGED << options, destroyed, data >>

(***************************************************************************)
(* Columns and keys                                                        *)
(***************************************************************************)
InSeq(x, q) == \E i \in DOMAIN q : q[i] = x

\* whereIn(table_schema, includeSchemas), whereNotIn(table_schema,
\* excludeSchemas), whereNotIn(table_name, exclude), in catalog order
ColumnsQuery(inc, exc, excTables) ==
  LET keep(r) == /\ InSeq(r.schema, inc)
                 /\ ~InSeq(r.schema, exc)
                 /\ ~InSeq(r.table, excTables)
  IN  SelectSeq(InformationSchemaColumns, keep)

FetchColumns ==
  /\ pc = "fetchColumns"
  /\ \/ /\ columns' = ColumnsQuery(includeSchemas, excludeSchemas, exclude)
        /\ keys' = << >>
        /\ schemaIdx' = 1
        /\ pc' = "fetchKeys"
        /\ UNCHANGED << options, output, destroyed, failed, includeSchemas,
                        excludeSchemas, exclude, enums, columnsWithKeyInfo >>
     \/ QueryFails("TableIndex")

KeyConstraintTypes == { "FOREIGN KEY", "UNIQUE", "PRIMARY KEY" }

\* table_constraints where table_schema = schema and constraint_type in (...)
KeyConstraintsQuery(schema) ==
  LET keep(r) == r.table_schema = schema /\ r.constraint_type \in KeyConstraintTypes
  IN  SelectSeq(TableConstraints, keep)

ConstraintNames(keyConstraints) ==
  { keyConstraints[i].constraint_name : i \in DOMAIN keyConstraints }

\* key_column_usage where table_schema = schema and constraint_name in (...)
KeyUsageQuery(schema, keyConstraints) ==
  LET keep(r) == /\ r.schema = schema
                 /\ r.constraint_name \in ConstraintNames(keyConstraints)
  IN  SelectSeq(KeyColumnUsage, keep)

\* the rows of constraint_column_usage the connecting role can see
VisibleColumnUsage(owned) == { r \in ConstraintColumnUsage : r.schema \in owned }

\* constraint_column_usage where constraint_name in (...): no schema filter
ColumnUsageQuery(owned, keyConstraints) ==
  { r \in VisibleColumnUsage(owned) :
      r.constraint_name \in ConstraintNames(keyConstraints) }

NoRef ==
  [ present |-> FALSE, schema |-> Undefined, table |-> Undefined,
    column |-> Undefined ]

Ref(r) ==
  [ present |-> TRUE, schema |-> r.schema, table |-> r.table, column |-> r.column ]

\* The query has no ORDER BY, so which of several rows of one constraint
\* name comes first is up to the database: first maps each name that has
\* rows to the row columnUsage.find reaches.
FirstRowChoices(columnUsage) ==
  LET names == { r.constraint_name : r \in columnUsage }
  IN  { f \in [ names -> columnUsage ] : \A n \in names : f[n].constraint_name = n }

\* keyUsage.map(...): the constraint type and the referenced column
JoinKeys(keyUsage, keyConstraints, first) ==
  LET constraintType(key) ==
        keyConstraints[CHOOSE i \in DOMAIN keyConstraints :
          /\ keyConstraints[i].constraint_name = key.constraint_name
          /\ \A j \in 1..(i - 1) :
               keyConstraints[j].constraint_name # key.constraint_name
        ].constraint_type
      refSchema(key) ==
        IF key.constraint_name \in DOMAIN first
          THEN Ref(first[key.constraint_name]) ELSE NoRef
      edge(key) ==
        [ schema |-> key.schema, table |-> key.table, column |-> key.column,
          constraint_name |-> key.constraint_name,
          constraint_type |-> constraintType(key),
          refSchema |-> refSchema(key) ]
  IN  Map(edge, keyUsage)

\* one iteration of the loop over includeSchemas
FetchKeys ==
  /\ pc = "fetchKeys"
  /\ schemaIdx <= Len(includeSchemas)
  /\ \/ LET schema == includeSchemas[schemaIdx]
            keyConstraints == KeyConstraintsQuery(schema)
            keyUsage == KeyUsageQuery(schema, keyConstraints)
            columnUsage == ColumnUsageQuery(options.owned, keyConstraints)
        IN  \E first \in FirstRowChoices(columnUsage) :
              /\ keys' = keys \o JoinKeys(keyUsage, keyConstraints, first)
              /\ schemaIdx' = schemaIdx + 1
              /\ UNCHANGED << options, pc, output, destroyed, failed,
                              includeSchemas, excludeSchemas, exclude, enums,
                              columns, columnsWithKeyInfo >>
     \/ QueryFails("TableIndex")

\* index of the first element of q satisfying P, 0 when there is none
FirstIndex(q, P(_)) ==
  IF \E i \in DOMAIN q : P(q[i])
    THEN CHOOSE i \in DOMAIN q : P(q[i]) /\ \A j \in 1..(i - 1) : ~P(q[j])
    ELSE 0

\* columns.map(...): key roles matched on table and column; the referenced
\* column of the first FOREIGN KEY that matches
AnnotateColumn(column, ks) ==
  LET has(ty) == \E i \in DOMAIN ks :
                   /\ ks[i].table = column.table
                   /\ ks[i].column = column.column
                   /\ ks[i].constraint_type = ty
      isFk(key) == /\ key.table = column.table
                   /\ key.column = column.column
                   /\ key.constraint_type = "FOREIGN KEY"
      fk == FirstIndex(ks, isFk)
  IN  [ schema |-> column.schema, table |-> column.table,
        column |-> column.column, nullable |-> column.nullable,
        default |-> column.default, type |-> column.type, udt |-> column.udt,
        is_foreign_key |-> has("FOREIGN KEY"),
        is_unique |-> has("UNIQUE"),
        is_primary_key |-> has("PRIMARY KEY"),
        ref_schema |-> IF fk = 0 THEN NoRef ELSE ks[fk].refSchema ]

AnnotateColumns ==
  /\ pc = "fetchKeys"
  /\ schemaIdx > Len(includeSchemas)
  /\ columnsWithKeyInfo' = [ i \in DOMAIN columns |-> AnnotateColumn(columns[i], keys) ]
  /\ pc' = "tableEnum"
  /\ UNCHANGED << options, output, destroyed, failed, includeSchemas,
                  excludeSchemas, exclude, enums, columns, keys, schemaIdx >>

(***************************************************************************)
(* Table enum and Tables map                                               *)
(***************************************************************************)
\* `${schema}.${table}`, the schema left out when it is "public"
TableValue(x) ==
  (IF x.schema # s_public THEN x.schema \o << "." >> ELSE << >>) \o x.table

\* new Set(...) then Array.from: first occurrences, in insertion order
RECURSIVE Dedupe(_)
Dedupe(q) ==
  IF q = << >> THEN << >>
  ELSE LET init == Dedupe(SubSeq(q, 1, Len(q) - 1))
           last == q[Len(q)]
       IN  IF InSeq(last, init) THEN init ELSE Append(init, last)

tableSet(cols) == Dedupe(Map(TableValue, cols))

TableEnumLines(cols, ov) ==
  LET member(value) == Line("TableIndex", "member", resolveName(ov, value), value)
  IN  << Line("TableIndex", "open", << >>, << >>) >>
      \o Map(member, tableSet(cols))
      \o << Line("TableIndex", "close", << >>, << >>) >>

EmitTableEnum ==
  /\ pc = "tableEnum"
  /\ WriteInsideTry(TableEnumLines(columnsWithKeyInfo, options.overrides),
                    "TableIndex", "tablesMap")
  /\ UNCHANGED << options, destroyed, data >>

\* an entry `"${key}": ${value}`: text is the key, value the type name
TablesMapLines(cols, ov) ==
  LET entry(key) == Line("TableMap", "entry", key, resolveName(ov, key))
  IN  << Line("TableMap", "open", << >>, << >>) >>
      \o Map(entry, tableSet(cols))
      \o << Line("TableMap", "close", << >>, << >>) >>

EmitTablesMap ==
  /\ pc = "tablesMap"
  /\ WriteInsideTry(TablesMapLines(columnsWithKeyInfo, options.overrides),
                    "TableMap", "recordTypes")
  /\ UNCHANGED << options, destroyed, data >>

(***************************************************************************)
(* Record types                                                            *)
(***************************************************************************)
\* upperFirst(camelCase(x.schema)), empty for "public"
schemaName(x) ==
  IF x.schema # s_public THEN upperFirst(camelCase(x.schema)) ELSE << >>

\* overrides[x.table] ?? upperFirst(camelCase(x.table))
tableName(x, ov) == resolveName(ov, x.table)

Brand(t, n) == [ tag |-> t, name |-> n ]

\* branding of the id columns: the own table's brand, else the flavor of
\* the referenced table
Brands(x, ov) ==
  IF x.column = c_id /\ (x.is_unique \/ x.is_primary_key)
    THEN << Brand("_brand", schemaName(x) \o tableName(x, ov)) >>
  ELSE IF x.is_foreign_key /\ endsWith(x.column, c_id)
    THEN LET refSchemaName ==
               IF x.ref_schema.schema # s_public
                 THEN upperFirst(camelCase(x.ref_schema.schema)) ELSE << >>
             refTableName == upperFirst(camelCase(x.ref_schema.table))
             brandName == refTableName \o << "I", "d" >>
         IN  << Brand("__flavor", brandName) >>
  ELSE << >>

\* the type of a field: getType, "[]" for an array, the brand, "| null"
FieldType(x, ov, enumRows) ==
  [ base  |-> IF x.type = "ARRAY"
                THEN getType(Tail(x.udt), ov, enumRows, x.default)
                ELSE getType(x.udt, ov, enumRows, x.default),
    array |-> x.type = "ARRAY",
    brands |-> Brands(x, ov),
    null  |-> x.nullable ]

\* sanitize(name): JSON.stringify adds the quotes
sanitize(name) ==
  IF IsIdentifier(name) THEN name ELSE << "\"" >> \o name \o << "\"" >>

\* the writes of one column row
RecordRowLines(cols, i, ov, enumRows) ==
  LET x == cols[i]
  IN  (IF ~(i > 1 /\ cols[i - 1].table = x.table)
         THEN << RowLine("open", schemaName(x) \o tableName(x, ov), NoType, i) >>
         ELSE << >>)
      \o << RowLine("field", sanitize(x.column), FieldType(x, ov, enumRows), i) >>
      \o (IF ~(i < Len(cols) /\ cols[i + 1].table = x.table)
            THEN << RowLine("close", << >>, NoType, i) >> ELSE << >>)

RECURSIVE RecordLines(_, _, _, _)
RecordLines(cols, i, ov, enumRows) ==
  IF i > Len(cols) THEN << >>
  ELSE RecordRowLines(cols, i, ov, enumRows) \o RecordLines(cols, i + 1, ov, enumRows)

EmitRecordTypes ==
  /\ pc = "recordTypes"
  /\ WriteInsideTry(RecordLines(columnsWithKeyInfo, 1, options.overrides, enums),
                    "RecordTypes", "suffix")
  /\ UNCHANGED << options, destroyed, data >>

(***************************************************************************)
(* Suffix and the finally block                                            *)
(***************************************************************************)
SuffixLines ==
  IF options.suffix
    THEN << Line("Suffix", "suffix", << >>, << >>),
            Line("Suffix", "newline", << >>, << >>) >>
    ELSE << >>

WriteSuffix ==
  /\ pc = "suffix"
  /\ WriteInsideTry(SuffixLines, "Suffix", "finally")
  /\ UNCHANGED << options, destroyed, data >>

EndCall == Line("Closed", "end", << >>, << >>)

\* finally { output.end(); db.destroy(); }, then the return or the rethrow
Finally ==
  /\ pc = "finally"
  /\ output' = Append(output, EndCall)
  /\ destroyed' = destroyed + 1
  /\ pc' = IF failed = "none" THEN "returned" ELSE "thrown"
  /\ UNCHANGED << options, failed, data >>

Next ==
  \/ WriteHeader
  \/ ParseOptions
  \/ WritePrefix
  \/ FetchEnums
  \/ EmitEnums
  \/ FetchColumns
  \/ FetchKeys
  \/ AnnotateColumns
  \/ EmitTableEnum
  \/ EmitTablesMap
  \/ EmitRecordTypes
  \/ WriteSuffix
  \/ Finally

Spec == Init /\ [][Next]_vars

(***************************************************************************)
(* Properties                                                              *)
(***************************************************************************)
Terminated == pc \in { "returned", "thrown" }

EndCalls == { i \in DOMAIN output : output[i].kind = "end" }

FieldLines == { i \in DOMAIN output : output[i].kind = "field" }

OpenLines ==
  { i \in DOMAIN output : output[i].phase = "RecordTypes" /\ output[i].kind = "open" }

CloseLines ==
  { i \in DOMAIN output : output[i].phase = "RecordTypes" /\ output[i].kind = "close" }

\* the annotated column a record-type line was written for
RowOf(i) == columnsWithKeyInfo[output[i].row]

HasFlavor(i) ==
  \E b \in DOMAIN output[i].type.brands : output[i].type.brands[b].tag = "__flavor"

\* C1: when updateTypes has terminated, by return or by exception, the
\* output stream has been ended exactly once and db.destroy() was called.
C1_ReleasedOnTermination ==
  Terminated => (Cardinality(EndCalls) = 1 /\ destroyed = 1)

TableIdentity(x) == << x.schema, x.table >>

\* C2: after a complete run there is one opened record declaration per
\* distinct (schema, table) of the column sequence, and every field line
\* lies between the open and the close line of its own (schema, table).
C2_GroupingBySchemaAndTable ==
  pc = "returned" =>
    /\ Cardinality(OpenLines)
         = Cardinality({ TableIdentity(columnsWithKeyInfo[i]) :
                           i \in DOMAIN columnsWithKeyInfo })
    /\ \A f \in FieldLines :
         /\ \E o \in OpenLines :
              /\ o < f
              /\ TableIdentity(RowOf(o)) = TableIdentity(RowOf(f))
              /\ \A m \in (OpenLines \cup CloseLines) : ~(o < m /\ m < f)
         /\ \E c \in CloseLines :
              /\ f < c
              /\ TableIdentity(RowOf(c)) = TableIdentity(RowOf(f))
              /\ \A m \in (OpenLines \cup CloseLines) : ~(f < m /\ m < c)

\* C3: a field carries the foreign brand exactly when its column is flagged
\* as a foreign key and its name ends with "id", whatever its other roles.
C3_ForeignBrandIff ==
  \A f \in FieldLines :
    HasFlavor(f) <=> (RowOf(f).is_foreign_key /\ endsWith(RowOf(f).column, c_id))

\* the schema of a table identity string: the part before ".", else "public"
SchemaOfValue(v) ==
  IF IndexOf(v, ".") = 0 THEN s_public ELSE SubSeq(v, 1, IndexOf(v, ".") - 1)

\* the schemas whose tables appear in the Table enum, the Tables map or the
\* record types
SchemasInOutput ==
  { SchemaOfValue(output[i].value) :
      i \in { j \in DOMAIN output :
                output[j].phase = "TableIndex" /\ output[j].kind = "member" } }
  \cup
  { SchemaOfValue(output[i].text) :
      i \in { j \in DOMAIN output :
                output[j].phase = "TableMap" /\ output[j].kind = "entry" } }
  \cup
  { RowOf(i).schema : i \in { j \in DOMAIN output : output[j].row > 0 } }

\* C4: a table appears in the output only if its schema is listed plainly
\* in options.schema and is not listed there with a leading "!".
C4_ExcludedSchemasAbsent ==
  \A sc \in SchemasInOutput :
    /\ InSeq(sc, schemaList(options))
    /\ ~InSeq(<< "!" >> \o sc, schemaList(options))

PhaseRank(ph) ==
  CASE ph = "Prefix" -> 1
    [] ph = "Enums" -> 2
    [] ph = "TableIndex" -> 3
    [] ph = "TableMap" -> 4
    [] ph = "RecordTypes" -> 5
    [] ph = "Suffix" -> 6
    [] ph = "Closed" -> 7

\* C5: the calls on the output stream follow the section order Prefix,
\* Enums, TableIndex, TableMap, RecordTypes, Suffix, Closed; nothing is
\* written by a section after the one that failed; nothing follows end().
C5_PhaseOrder ==
  /\ \A i \in 1..(Len(output) - 1) :
       PhaseRank(output[i].phase) <= PhaseRank(output[i + 1].phase)
  /\ failed # "none" =>
       \A i \in DOMAIN output :
         output[i].kind = "end" \/ PhaseRank(output[i].phase) <= PhaseRank(failed)
  /\ \A i \in EndCalls : i = Len(output)

\* C5 witness: a complete run that wrote in every section and ended the stream
C5_AllPhasesWritten ==
  /\ pc = "returned"
  /\ \A p \in DOMAIN Phases : \E i \in DOMAIN output : output[i].phase = Phases[p]

\* C6: the referenced column attached to a FOREIGN KEY edge of schema S is
\* one that constraint_column_usage records for the constraint of that name
\* in S.
C6_RefFromOwnSchema ==
  \A i \in DOMAIN keys :
    (keys[i].constraint_type = "FOREIGN KEY" /\ keys[i].refSchema.present) =>
      \E r \in ConstraintColumnUsage :
        /\ r.constraint_schema = keys[i].schema
        /\ r.constraint_name = keys[i].constraint_name
        /\ Ref(r) = keys[i].refSchema

\* C7: a foreign key column whose name ends with "id" and whose referenced
\* column was not found is written with no brand at all.
C7_MissingRefOmitsBrand ==
  \A f \in FieldLines :
    ( /\ RowOf(f).is_foreign_key
      /\ endsWith(RowOf(f).column, c_id)
      /\ ~RowOf(f).ref_schema.present ) => output[f].type.brands = << >>

\* C8: the type name a Tables entry gives for a table is the name under
\* which the record declaration of that table is opened.
C8_MapNameIsRecordName ==
  \A e \in { j \in DOMAIN output :
               output[j].phase = "TableMap" /\ output[j].kind = "entry" } :
    \A o \in OpenLines :
      TableValue(RowOf(o)) = output[e].text => output[e].value = output[o].text

\* C9: after the partition, includeSchemas holds the entries without a
\* leading "!" and excludeSchemas the other entries with the "!" removed.
C9_PartitionStripsMark ==
  pc = "prefix" =>
    /\ Range(includeSchemas)
         = { e \in Range(schemaList(options)) : ~startsWith(e, << "!" >>) }
    /\ Range(excludeSchemas)
         = { Tail(e) : e \in { x \in Range(schemaList(options)) :
                                 startsWith(x, << "!" >>) } }

FlavorName(i) ==
  output[i].type.brands[CHOOSE b \in DOMAIN output[i].type.brands :
                          output[i].type.brands[b].tag = "__flavor"].name

\* C10: two foreign-branded fields whose referenced (schema, table) differ
\* carry different brand names.
C10_BrandsDistinguishTargets ==
  \A a, b \in { f \in FieldLines : HasFlavor(f) /\ RowOf(f).ref_schema.present } :
    << RowOf(a).ref_schema.schema, RowOf(a).ref_schema.table >>
      # << RowOf(b).ref_schema.schema, RowOf(b).ref_schema.table >>
    => FlavorName(a) # FlavorName(b)

====
